---- MODULE Spec2Model ----
(***************************************************************************)
(* Conversation state machine and message-processing protocol of the      *)
(* WhatsApp loan agent: ConversationEngine (core/conversation.py), the     *)
(* inbound handler and profile merge (agent/views.py), and the follow-up   *)
(* driver, the campaign driver and the interest-level job (agent/tasks.py),*)
(* for one phone number (a second one only as a campaign target), and the  *)
(* send path of WhatsAppClient (core/whatsapp.py).                         *)
(*                                                                         *)
(* interest_level is kept in tenths (0.3 is 3): every delta and every      *)
(* clamp of the code is a multiple of 0.1.                                 *)
(***************************************************************************)
EXTENDS Integers, Sequences, FiniteSets, TLC

VARIABLES
    customers,    \* Customer table: phone number -> row (no entry: no Customer)
    followups,    \* FollowUp table: sequence of rows [status]
    interactions, \* Interaction table: the inbound rows, in order of creation
    campaign,     \* the Campaign row
    targets,      \* CampaignTarget table: sequence of rows [customer, status]
    sent,         \* messages the WhatsApp API accepted, counted by kind
    pc,           \* position of each inbound handler (process_text_message)
    customer,     \* each handler's in-memory Customer object
    profile,      \* each handler's customer_profile snapshot (state, interest)
    response,     \* each handler's Response from generate_response
    interaction,  \* each handler's inbound Interaction (its place in the table)
    received,     \* number of inbound messages handed to the handlers so far
    fu_pc,        \* position of each run of the follow-up driver
    fu_batch,     \* FollowUp rows the run still has to process
    fu_customer,  \* the Customer object the run's query loaded
    fu_found,     \* the FollowUp rows the run's query returned
    cp_pc,        \* position of each run of the campaign driver
    cp_batch,     \* CampaignTarget rows the run still has to process
    cp_customer,  \* the Customer objects the run's query loaded
    fn_in,        \* input of the pure function under study
    fn_out,       \* its result
    message_counts,       \* WhatsAppClient.message_counts: (phone, day) -> sends
    conversation_windows, \* WhatsAppClient.conversation_windows: phone -> time
    now,          \* time.time(), in hours
    last_inbound, \* phone -> timestamp of the customer's latest inbound message
    posted        \* the latest send call: what it posted and what it returned

tables == <<customers, followups, interactions, campaign, targets>>
handler_vars == <<pc, customer, profile, response, interaction, received>>
fu_vars == <<fu_pc, fu_batch, fu_customer, fu_found>>
cp_vars == <<cp_pc, cp_batch, cp_customer>>
fn_vars == <<fn_in, fn_out>>
client_vars == <<message_counts, conversation_windows, now, last_inbound, posted>>

vars == <<tables, sent, handler_vars, fu_vars, cp_vars, fn_vars, client_vars>>

\* ------------------------------------------------------------------ bounds
MaxMsgs == 2
\* the clock's reading at the start, hours since the epoch (a midnight), and
\* the hours the clock is followed for
StartTime == 48
MaxElapsed == 26
\* a day's message count is followed up to MaxCount, and again from one below
\* the rate limit
MaxCount == 2
\* how many Interactions more than the history query's limit a customer has
MaxExtra == 2
\* how far outside [0.0, 1.0] a stored interest_level is taken, in tenths
InterestOverrun == 3

Handlers == {1, 2}
Runs == {1, 2}
Phone == "p1"
OtherPhone == "p2"

\* ------------------------------------------- ConversationEngine.State/Intent
States ==
    {"initial", "introduction", "qualifying", "property_details", "loan_details",
     "objection_handling", "closing", "follow_up_scheduling", "completed",
     "not_interested"}

Intents ==
    {"interested", "needs_more_info", "objection", "not_interested",
     "asking_question", "follow_up_later"}

NoTransitions == [i \in {} |-> "initial"]

TransitionTable ==
    [initial |->
        [interested |-> "introduction", needs_more_info |-> "introduction",
         not_interested |-> "not_interested", asking_question |-> "introduction"],
     introduction |->
        [interested |-> "qualifying", needs_more_info |-> "qualifying",
         objection |-> "objection_handling", not_interested |-> "not_interested",
         asking_question |-> "qualifying"],
     qualifying |->
        [interested |-> "property_details", needs_more_info |-> "qualifying",
         objection |-> "objection_handling", not_interested |-> "not_interested",
         asking_question |-> "qualifying", follow_up_later |-> "follow_up_scheduling"],
     property_details |->
        [interested |-> "loan_details", needs_more_info |-> "property_details",
         objection |-> "objection_handling", not_interested |-> "not_interested",
         asking_question |-> "property_details",
         follow_up_later |-> "follow_up_scheduling"],
     loan_details |->
        [interested |-> "closing", needs_more_info |-> "loan_details",
         objection |-> "objection_handling", not_interested |-> "not_interested",
         asking_question |-> "loan_details", follow_up_later |-> "follow_up_scheduling"],
     objection_handling |->
        [interested |-> "loan_details", needs_more_info |-> "loan_details",
         objection |-> "objection_handling", not_interested |-> "not_interested",
         asking_question |-> "loan_details", follow_up_later |-> "follow_up_scheduling"],
     closing |->
        [interested |-> "completed", needs_more_info |-> "loan_details",
         objection |-> "objection_handling", not_interested |-> "not_interested",
         asking_question |-> "loan_details", follow_up_later |-> "follow_up_scheduling"],
     follow_up_scheduling |->
        [interested |-> "loan_details", needs_more_info |-> "loan_details",
         not_interested |-> "not_interested"],
     completed |-> NoTransitions,
     not_interested |-> [interested |-> "introduction"]]

\* mutants of the table: not_interested left with a second way out; closing
\* without its follow_up_later entry
state_transitions_reopened ==
    [TransitionTable EXCEPT
        !["not_interested"] =
            [interested |-> "introduction", asking_question |-> "introduction"]]

state_transitions_no_later ==
    [TransitionTable EXCEPT
        !["closing"] =
            [interested |-> "completed", needs_more_info |-> "loan_details",
             objection |-> "objection_handling", not_interested |-> "not_interested",
             asking_question |-> "loan_details"]]

\* self.state_transitions
state_transitions == TransitionTable

\* mutant: an intent without an entry sends the conversation back to the start
update_state_restart(current_state, intent) ==
    LET transitions == IF current_state \in DOMAIN state_transitions
                       THEN state_transitions[current_state] ELSE NoTransitions
    IN  IF intent \in DOMAIN transitions THEN transitions[intent] ELSE "initial"

update_state(current_state, intent) ==
    LET transitions == IF current_state \in DOMAIN state_transitions
                       THEN state_transitions[current_state] ELSE NoTransitions
    IN  IF intent \in DOMAIN transitions THEN transitions[intent] ELSE current_state


\* --------------------------------------------------------- LLM capability
\* What the three LLM calls of one inbound message do: the classifier's answer
\* (or its failure), the extractor's cleaned JSON object (or its failure) and
\* whether the generation call succeeds.
EmptyInfo == [k \in {} |-> "none"]

InfoProperty ==
    [property_type |-> "flat", concerns |-> [is_list |-> FALSE, value |-> <<"rate">>]]
InfoOptOut == [name |-> "Asha", do_not_contact |-> TRUE]

Outcome(intent, info, generate_ok) ==
    [intent |-> intent, classify_ok |-> TRUE, finish_stop |-> TRUE,
     info |-> info, extract_ok |-> TRUE, generate_ok |-> generate_ok]

\* The messages of the model: every intent with nothing to extract, every
\* intent with a failing generation call (with nothing, and with property data,
\* extracted before it), every intent with property data, and an opt-out with
\* the generation call succeeding and failing.
LLMOutcomes ==
    {Outcome(i, EmptyInfo, TRUE) : i \in Intents}
    \cup {Outcome(i, EmptyInfo, FALSE) : i \in Intents}
    \cup {Outcome(i, InfoProperty, TRUE) : i \in Intents}
    \cup {Outcome(i, InfoProperty, FALSE) : i \in Intents}
    \cup {Outcome("not_interested", InfoOptOut, TRUE)}
    \cup {Outcome("not_interested", InfoOptOut, FALSE)}

\* mutant: a failed classification is reported with the base confidence
detect_intent_unsure(llm) ==
    IF llm.classify_ok
    THEN <<llm.intent, 7 + (IF llm.finish_stop THEN 1 ELSE 0)>>
    ELSE <<"needs_more_info", 7>>

detect_intent(llm) ==
    IF llm.classify_ok
    THEN <<llm.intent, 7 + (IF llm.finish_stop THEN 1 ELSE 0)>>
    ELSE <<"needs_more_info", 5>>

\* mutant: a failed extraction hands on what the extractor had parsed so far
extract_information_partial(llm) ==
    llm.info

extract_information(llm) ==
    IF llm.extract_ok THEN llm.info ELSE EmptyInfo

calculate_follow_up_date(intent, state) ==
    IF intent = "follow_up_later" THEN "7d"
    ELSE IF state = "follow_up_scheduling" THEN "14d"
    ELSE IF state = "not_interested" THEN "90d"
    ELSE IF state = "objection_handling" THEN "21d"
    ELSE IF state = "loan_details" /\ intent # "interested" THEN "30d"
    ELSE "None"

\* mutant: the fallback Response carries the computed new_state
generate_response_advancing(llm, customer_profile) ==
    LET current_state == customer_profile.conversation_state
        detected == detect_intent(llm)
        intent == detected[1]
        confidence == detected[2]
        extracted_info == extract_information(llm)
        new_state == update_state(current_state, intent)
    IN  IF llm.generate_ok
        THEN [text |-> "generated", state |-> new_state,
              previous_state |-> current_state, intent |-> intent,
              confidence |-> confidence, extracted_info |-> extracted_info,
              follow_up_date |-> calculate_follow_up_date(intent, new_state),
              fallback |-> FALSE]
        ELSE [text |-> "apology", state |-> new_state,
              previous_state |-> current_state, intent |-> intent,
              confidence |-> 5, extracted_info |-> EmptyInfo,
              follow_up_date |-> "None", fallback |-> TRUE]

\* mutant: the fallback Response carries what the extractor returned
generate_response_extracting(llm, customer_profile) ==
    LET current_state == customer_profile.conversation_state
        detected == detect_intent(llm)
        intent == detected[1]
        confidence == detected[2]
        extracted_info == extract_information(llm)
        new_state == update_state(current_state, intent)
    IN  IF llm.generate_ok
        THEN [text |-> "generated", state |-> new_state,
              previous_state |-> current_state, intent |-> intent,
              confidence |-> confidence, extracted_info |-> extracted_info,
              follow_up_date |-> calculate_follow_up_date(intent, new_state),
              fallback |-> FALSE]
        ELSE [text |-> "apology", state |-> current_state,
              previous_state |-> current_state, intent |-> intent,
              confidence |-> 5, extracted_info |-> extracted_info,
              follow_up_date |-> "None", fallback |-> TRUE]

generate_response(llm, customer_profile) ==
    LET current_state == customer_profile.conversation_state
        detected == detect_intent(llm)
        intent == detected[1]
        confidence == detected[2]
        extracted_info == extract_information(llm)
        new_state == update_state(current_state, intent)
    IN  IF llm.generate_ok
        THEN [text |-> "generated", state |-> new_state,
              previous_state |-> current_state, intent |-> intent,
              confidence |-> confidence, extracted_info |-> extracted_info,
              follow_up_date |-> calculate_follow_up_date(intent, new_state),
              fallback |-> FALSE]
        ELSE [text |-> "apology", state |-> current_state,
              previous_state |-> current_state, intent |-> intent,
              confidence |-> 5, extracted_info |-> EmptyInfo,
              follow_up_date |-> "None", fallback |-> TRUE]

\* mutant: the follow-up's intent label is returned as the new state
generate_followup_label(last_state, generate_ok) ==
    IF generate_ok
    THEN [text |-> "generated",
          new_state |-> IF last_state = "not_interested" THEN "not_interested"
                        ELSE IF last_state = "completed" THEN "completed"
                        ELSE "follow_up"]
    ELSE [text |-> "fallback", new_state |-> last_state]

generate_followup(last_state, generate_ok) ==
    IF generate_ok
    THEN [text |-> "generated",
          new_state |-> IF last_state = "not_interested" THEN "not_interested"
                        ELSE IF last_state = "completed" THEN "completed"
                        ELSE "follow_up_scheduling"]
    ELSE [text |-> "fallback", new_state |-> last_state]

\* ------------------------------------------------------------ ProfileMerger
PropertyKeys == {"property_type", "property_location", "property_value", "ownership_status"}
LoanKeys == {"loan_amount_needed", "loan_purpose", "current_loans", "monthly_income", "urgency"}

Min(a, b) == IF a < b THEN a ELSE b
Max(a, b) == IF a > b THEN a ELSE b

update_interest_level(interest_level, intent) ==
    IF intent = "interested" THEN Min(10, interest_level + 2)
    ELSE IF intent = "needs_more_info" THEN Min(8, interest_level + 1)
    ELSE IF intent = "objection" THEN Max(1, interest_level - 1)
    ELSE IF intent = "not_interested" THEN Max(0, interest_level - 3)
    ELSE interest_level

\* mutant: a key the map already holds keeps its old value
merge_keys_keeping(old, extracted_info, keys) ==
    [k \in DOMAIN old \cup (DOMAIN extracted_info \cap keys) |->
        IF k \in DOMAIN old THEN old[k] ELSE extracted_info[k]]

merge_keys(old, extracted_info, keys) ==
    [k \in DOMAIN old \cup (DOMAIN extracted_info \cap keys) |->
        IF k \in DOMAIN extracted_info \cap keys THEN extracted_info[k] ELSE old[k]]

\* mutant: the extracted concerns replace the stored list
merge_concerns_replacing(loan_requirements, extracted_info) ==
    IF "concerns" \notin DOMAIN extracted_info THEN loan_requirements
    ELSE [k \in DOMAIN loan_requirements \cup {"concerns"} |->
             IF k = "concerns" THEN extracted_info["concerns"].value
             ELSE loan_requirements[k]]

merge_concerns(loan_requirements, extracted_info) ==
    IF "concerns" \notin DOMAIN extracted_info THEN loan_requirements
    ELSE LET old == IF "concerns" \in DOMAIN loan_requirements
                    THEN loan_requirements["concerns"] ELSE << >>
             c == extracted_info["concerns"]
             new == IF c.is_list THEN old \o c.value ELSE Append(old, c.value[1])
         IN  [k \in DOMAIN loan_requirements \cup {"concerns"} |->
                 IF k = "concerns" THEN new ELSE loan_requirements[k]]

update_customer_profile_fields(c, extracted_info, intent, state) ==
    [conversation_state |-> state,
     interest_level |-> update_interest_level(c.interest_level, intent),
     property_details |-> merge_keys(c.property_details, extracted_info, PropertyKeys),
     loan_requirements |->
        merge_concerns(merge_keys(c.loan_requirements, extracted_info, LoanKeys),
                       extracted_info),
     name |-> IF "name" \in DOMAIN extracted_info /\ c.name = "None"
              THEN extracted_info["name"] ELSE c.name,
     do_not_contact |-> IF "do_not_contact" \in DOMAIN extracted_info
                           /\ extracted_info["do_not_contact"]
                        THEN TRUE ELSE c.do_not_contact]

\* mutant: with nothing extracted the merge leaves the state as it was
update_customer_profile_skipping(c, extracted_info, intent, state) ==
    IF extracted_info = EmptyInfo
    THEN [c EXCEPT !.interest_level = update_interest_level(c.interest_level, intent)]
    ELSE update_customer_profile_fields(c, extracted_info, intent, state)

\* mutant: do_not_contact follows the latest message
update_customer_profile_resetting(c, extracted_info, intent, state) ==
    [update_customer_profile_fields(c, extracted_info, intent, state)
        EXCEPT !.do_not_contact = "do_not_contact" \in DOMAIN extracted_info
                                  /\ extracted_info["do_not_contact"]]

update_customer_profile(c, extracted_info, intent, state) ==
    update_customer_profile_fields(c, extracted_info, intent, state)

\* ------------------------------------------------------------------- tables
NoDetails == [k \in {} |-> "none"]

\* Customer.objects.create(phone_number=...): the model's field defaults
NewCustomer ==
    [conversation_state |-> "initial", interest_level |-> 0,
     property_details |-> NoDetails, loan_requirements |-> NoDetails,
     name |-> "None", do_not_contact |-> FALSE]

NoCustomers == [p \in {} |-> NewCustomer]
NoObject == [none |-> TRUE]

\* Interaction.objects.create(direction="inbound", ...): detected_intent is
\* null until the handler has the Response
NewInteraction == [direction |-> "inbound", detected_intent |-> "None"]

\* CampaignTarget of a customer, status default
NewTarget(phone) == [customer |-> phone, status |-> "pending"]

\* nothing sent yet
NothingSent == [reply |-> 0, follow_up |-> 0, template |-> 0]

\* what a send of the WhatsApp client gives its caller: the API's result, the
\* error dict of an exceeded rate limit, or the RequestException of the fifth
\* failed attempt
SendResults == {"ok", "error", "raised"}

\* The Customer rows earlier conversations leave behind, one per state, each with
\* the interest_level a new Customer has on reaching that state by the shortest
\* sequence of messages (in tenths).
FunnelInterest ==
    [initial |-> 0, introduction |-> 2, qualifying |-> 4, property_details |-> 6,
     loan_details |-> 8, closing |-> 10, completed |-> 10, objection_handling |-> 1,
     follow_up_scheduling |-> 4, not_interested |-> 0]

InitCustomers ==
    {[NewCustomer EXCEPT !.conversation_state = s, !.interest_level = FunnelInterest[s]] :
        s \in States}

\* ----------------------------------------------------------------- handlers
idle_locals(h) ==
    /\ customer' = [customer EXCEPT ![h] = NoObject]
    /\ profile' = [profile EXCEPT ![h] = NoObject]
    /\ response' = [response EXCEPT ![h] = NoObject]
    /\ interaction' = [interaction EXCEPT ![h] = 0]

\* process_text_message up to the creation of the inbound Interaction, for a
\* phone number get_or_create_customer finds; for one it does not find, up to
\* Customer.objects.get.
\* The handlers are interchangeable workers: a message goes to the first free one.
Receive(h) ==
    /\ pc[h] = "idle"
    /\ \A g \in Handlers : g < h => pc[g] # "idle"
    /\ received < MaxMsgs
    /\ received' = received + 1
    /\ IF Phone \in DOMAIN customers
       THEN /\ customer' = [customer EXCEPT ![h] = customers[Phone]]
            /\ interactions' = Append(interactions, NewInteraction)
            /\ interaction' = [interaction EXCEPT ![h] = Len(interactions) + 1]
            /\ pc' = [pc EXCEPT ![h] = "loaded"]
       ELSE /\ pc' = [pc EXCEPT ![h] = "creating"]
            /\ UNCHANGED <<customer, interactions, interaction>>
    /\ UNCHANGED <<customers, followups, campaign, targets, sent, profile, response>>
    /\ UNCHANGED <<fu_vars, cp_vars, fn_vars, client_vars>>

\* get_or_create_customer's Customer.objects.create, then the inbound
\* Interaction; phone_number is unique, so a second create raises and
\* process_text_message's except ends the handler
Create(h) ==
    /\ pc[h] = "creating"
    /\ IF Phone \notin DOMAIN customers
       THEN /\ customers' = (Phone :> NewCustomer) @@ customers
            /\ customer' = [customer EXCEPT ![h] = NewCustomer]
            /\ interactions' = Append(interactions, NewInteraction)
            /\ interaction' = [interaction EXCEPT ![h] = Len(interactions) + 1]
            /\ pc' = [pc EXCEPT ![h] = "loaded"]
       ELSE /\ pc' = [pc EXCEPT ![h] = "idle"]
            /\ UNCHANGED <<customers, customer, interactions, interaction>>
    /\ UNCHANGED <<followups, campaign, targets, sent, profile, response, received>>
    /\ UNCHANGED <<fu_vars, cp_vars, fn_vars, client_vars>>

\* customer_profile snapshot and engine.generate_response
Respond(h) ==
    /\ pc[h] = "loaded"
    /\ \E llm \in LLMOutcomes :
        LET customer_profile ==
                [conversation_state |-> customer[h].conversation_state,
                 interest_level |-> customer[h].interest_level]
        IN  /\ profile' = [profile EXCEPT ![h] = customer_profile]
            /\ response' = [response EXCEPT ![h] = generate_response(llm, customer_profile)]
    /\ pc' = [pc EXCEPT ![h] = "responded"]
    /\ UNCHANGED <<tables, sent, customer, interaction, received>>
    /\ UNCHANGED <<fu_vars, cp_vars, fn_vars, client_vars>>

schedule_followup(rows, time_frame) ==
    IF time_frame # "None"
    THEN Append(rows, [status |-> "pending"])
    ELSE rows

\* the customer's CampaignTargets in status sent get the new status
update_campaign_targets(rows, phone, status) ==
    [i \in DOMAIN rows |->
        IF rows[i].customer = phone /\ rows[i].status = "sent"
        THEN [rows[i] EXCEPT !.status = status]
        ELSE rows[i]]

\* the rest of process_text_message: the analysis stored on the Interaction,
\* update_customer_profile (the merge and customer.save() of every field), the
\* reply, schedule_followup, update_campaign_targets, return. A send_text that
\* raises takes the handler to its except: nothing after the send happens.
Merge(h) ==
    /\ pc[h] = "responded"
    /\ interactions' =
        [interactions EXCEPT ![interaction[h]].detected_intent = response[h].intent]
    /\ customers' =
        [customers EXCEPT ![Phone] =
            update_customer_profile(customer[h], response[h].extracted_info,
                                    response[h].intent, response[h].state)]
    /\ \E whatsapp_result \in SendResults :
        /\ sent' = IF whatsapp_result = "ok"
                   THEN [sent EXCEPT !.reply = @ + 1] ELSE sent
        /\ IF whatsapp_result = "raised"
           THEN UNCHANGED <<followups, targets>>
           ELSE /\ followups' = schedule_followup(followups, response[h].follow_up_date)
                /\ targets' = update_campaign_targets(targets, Phone, "responded")
    /\ pc' = [pc EXCEPT ![h] = "idle"]
    /\ idle_locals(h)
    /\ UNCHANGED <<campaign, received>>
    /\ UNCHANGED <<fu_vars, cp_vars, fn_vars, client_vars>>

\* --------------------------------------------------------- follow-up driver
PendingFollowups == {i \in DOMAIN followups : followups[i].status = "pending"}

RECURSIVE SetToSeq(_)
SetToSeq(S) ==
    IF S = {} THEN << >>
    ELSE LET i == CHOOSE x \in S : \A y \in S : x <= y
         IN  <<i>> \o SetToSeq(S \ {i})

\* process_scheduled_followups: the query for the pending FollowUps whose
\* scheduled_date has passed (any of the pending ones, as the clock decides),
\* with their customer (select_related), evaluated once when the loop starts.
\* A run that finds none changes nothing.
FollowupQuery(r) ==
    /\ fu_pc[r] = "idle"
    /\ \E due \in SUBSET PendingFollowups :
        /\ due # {}
        /\ fu_batch' = [fu_batch EXCEPT ![r] = SetToSeq(due)]
        /\ fu_found' = [fu_found EXCEPT ![r] = due]
    /\ fu_customer' = [fu_customer EXCEPT ![r] = customers[Phone]]
    /\ fu_pc' = [fu_pc EXCEPT ![r] = "running"]
    /\ UNCHANGED <<tables, sent, handler_vars, cp_vars, fn_vars, client_vars>>

\* mutant: a FollowUp whose send failed stays pending
FollowupStepRetrying(r) ==
    /\ fu_pc[r] = "running"
    /\ LET i == Head(fu_batch[r])
       IN  IF fu_customer[r].do_not_contact
           THEN /\ followups' = [followups EXCEPT ![i].status = "cancelled"]
                /\ UNCHANGED <<customers, sent>>
           ELSE \E generate_ok \in BOOLEAN, send_ok \in BOOLEAN :
                    LET resp == generate_followup(fu_customer[r].conversation_state,
                                                  generate_ok)
                    IN  IF send_ok
                        THEN /\ followups' = [followups EXCEPT ![i].status = "sent"]
                             /\ customers' =
                                    [customers EXCEPT
                                        ![Phone].conversation_state = resp.new_state]
                             /\ sent' = [sent EXCEPT !.follow_up = @ + 1]
                        ELSE /\ followups' = followups
                             /\ UNCHANGED <<customers, sent>>
    /\ fu_batch' = [fu_batch EXCEPT ![r] = Tail(fu_batch[r])]
    /\ IF Len(fu_batch[r]) = 1
       THEN /\ fu_pc' = [fu_pc EXCEPT ![r] = "idle"]
            /\ fu_customer' = [fu_customer EXCEPT ![r] = NoObject]
            /\ fu_found' = [fu_found EXCEPT ![r] = {}]
       ELSE UNCHANGED <<fu_pc, fu_customer, fu_found>>
    /\ UNCHANGED <<interactions, campaign, targets, handler_vars, cp_vars, fn_vars, client_vars>>

\* one iteration of the loop of process_scheduled_followups
FollowupStep(r) ==
    /\ fu_pc[r] = "running"
    /\ LET i == Head(fu_batch[r])
       IN  IF fu_customer[r].do_not_contact
           THEN /\ followups' = [followups EXCEPT ![i].status = "cancelled"]
                /\ UNCHANGED <<customers, sent>>
           ELSE \E generate_ok \in BOOLEAN, send_ok \in BOOLEAN :
                    LET resp == generate_followup(fu_customer[r].conversation_state,
                                                  generate_ok)
                    IN  IF send_ok
                        THEN /\ followups' = [followups EXCEPT ![i].status = "sent"]
                             /\ customers' =
                                    [customers EXCEPT
                                        ![Phone].conversation_state = resp.new_state]
                             /\ sent' = [sent EXCEPT !.follow_up = @ + 1]
                        ELSE /\ followups' = [followups EXCEPT ![i].status = "failed"]
                             /\ UNCHANGED <<customers, sent>>
    /\ fu_batch' = [fu_batch EXCEPT ![r] = Tail(fu_batch[r])]
    /\ IF Len(fu_batch[r]) = 1
       THEN /\ fu_pc' = [fu_pc EXCEPT ![r] = "idle"]
            /\ fu_customer' = [fu_customer EXCEPT ![r] = NoObject]
            /\ fu_found' = [fu_found EXCEPT ![r] = {}]
       ELSE UNCHANGED <<fu_pc, fu_customer, fu_found>>
    /\ UNCHANGED <<interactions, campaign, targets, handler_vars, cp_vars, fn_vars, client_vars>>

\* ---------------------------------------------------------- campaign driver
\* mutant: failed targets are taken up again
RetryableTargets == {i \in DOMAIN targets : targets[i].status \in {"pending", "failed"}}

PendingTargets == {i \in DOMAIN targets : targets[i].status = "pending"}

\* process_campaign up to the start of its loop: the status check, the status
\* running saved, and the query for the pending targets with their customers
\* (select_related). A campaign that is neither scheduled nor running is
\* refused and nothing changes.
CampaignStart(r) ==
    /\ cp_pc[r] = "idle"
    /\ campaign.status \in {"scheduled", "running"}
    /\ campaign' = [campaign EXCEPT !.status = "running"]
    /\ cp_batch' = [cp_batch EXCEPT ![r] = SetToSeq(PendingTargets)]
    /\ cp_customer' = [cp_customer EXCEPT ![r] = customers]
    /\ cp_pc' = [cp_pc EXCEPT ![r] = "running"]
    /\ UNCHANGED <<customers, followups, interactions, targets, sent>>
    /\ UNCHANGED <<handler_vars, fu_vars, fn_vars, client_vars>>

\* one iteration of the loop of process_campaign: a do_not_contact customer's
\* target is excluded; otherwise the template is sent and the target saved as
\* sent or, on an error result or an exception, as failed
CampaignStep(r) ==
    /\ cp_pc[r] = "running"
    /\ cp_batch[r] # << >>
    /\ LET i == Head(cp_batch[r])
       IN  IF cp_customer[r][targets[i].customer].do_not_contact
           THEN /\ targets' = [targets EXCEPT ![i].status = "excluded"]
                /\ UNCHANGED sent
           ELSE \E result \in SendResults :
                    IF result = "ok"
                    THEN /\ targets' = [targets EXCEPT ![i].status = "sent"]
                         /\ sent' = [sent EXCEPT !.template = @ + 1]
                    ELSE /\ targets' = [targets EXCEPT ![i].status = "failed"]
                         /\ UNCHANGED sent
    /\ cp_batch' = [cp_batch EXCEPT ![r] = Tail(cp_batch[r])]
    /\ UNCHANGED <<customers, followups, interactions, campaign, cp_pc, cp_customer>>
    /\ UNCHANGED <<handler_vars, fu_vars, fn_vars, client_vars>>

\* the end of process_campaign: completed when no target is pending, and the
\* campaign saved with the status the run holds
CampaignFinish(r) ==
    /\ cp_pc[r] = "running"
    /\ cp_batch[r] = << >>
    /\ campaign' = [campaign EXCEPT !.status =
                        IF PendingTargets = {} THEN "completed" ELSE "running"]
    /\ cp_pc' = [cp_pc EXCEPT ![r] = "idle"]
    /\ cp_customer' = [cp_customer EXCEPT ![r] = NoObject]
    /\ UNCHANGED <<customers, followups, interactions, targets, sent, cp_batch>>
    /\ UNCHANGED <<handler_vars, fu_vars, fn_vars, client_vars>>

\* ------------------------------------------------ interest-level batch job
\* the job's contribution of one Interaction, in tenths
interest_factor_of(row) ==
    IF row.direction # "inbound" THEN 0
    ELSE IF row.detected_intent = "interested" THEN 2
    ELSE IF row.detected_intent = "needs_more_info" THEN 1
    ELSE IF row.detected_intent = "objection" THEN -1
    ELSE IF row.detected_intent = "not_interested" THEN -3
    ELSE 0

RECURSIVE interest_factor(_)
interest_factor(rows) ==
    IF rows = << >> THEN 0
    ELSE interest_factor_of(Head(rows)) + interest_factor(Tail(rows))

\* mutant: the job adds the factor without clamping the sum
new_interest_level_unclamped(interest_level, recent_interactions) ==
    interest_level + Max(-10, Min(10, interest_factor(recent_interactions)))

\* the level the job computes for a customer from the recent Interactions
new_interest_level(interest_level, recent_interactions) ==
    LET factor == Max(-10, Min(10, interest_factor(recent_interactions)))
    IN  Max(0, Min(10, interest_level + factor))

\* update_customer_interest_levels for the customer: the Interactions of the
\* last 30 days are the newest rows of the table, as many as the clock decides
\* (at least one, or the customer is not among the active ones)
UpdateInterestLevels ==
    /\ Phone \in DOMAIN customers
    /\ \E first \in 1..Len(interactions) :
        LET recent_interactions == SubSeq(interactions, first, Len(interactions))
        IN  customers' =
                [customers EXCEPT ![Phone].interest_level =
                    new_interest_level(@, recent_interactions)]
    /\ UNCHANGED <<followups, interactions, campaign, targets, sent>>
    /\ UNCHANGED <<handler_vars, fu_vars, cp_vars, fn_vars, client_vars>>

\* ------------------------------------------------------------ specification
\* no request posted, no send call made
NoRequest == [type |-> "none", name |-> "None", parameters |-> << >>, body |-> "None"]
NoCall == [call |-> "none", text |-> "None", request |-> NoRequest, result |-> "None"]

\* WhatsAppClient() as constructed, nothing received and nothing sent
IdleClient ==
    /\ message_counts = << >>
    /\ conversation_windows = << >>
    /\ now = StartTime
    /\ last_inbound = << >>
    /\ posted = NoCall

\* handlers and drivers at rest
IdleProcesses ==
    /\ pc = [h \in Handlers |-> "idle"]
    /\ customer = [h \in Handlers |-> NoObject]
    /\ profile = [h \in Handlers |-> NoObject]
    /\ response = [h \in Handlers |-> NoObject]
    /\ interaction = [h \in Handlers |-> 0]
    /\ received = 0
    /\ fu_pc = [r \in Runs |-> "idle"]
    /\ fu_batch = [r \in Runs |-> << >>]
    /\ fu_customer = [r \in Runs |-> NoObject]
    /\ fu_found = [r \in Runs |-> {}]
    /\ cp_pc = [r \in Runs |-> "idle"]
    /\ cp_batch = [r \in Runs |-> << >>]
    /\ cp_customer = [r \in Runs |-> NoObject]

\* a phone number with no Customer or with the Customer an earlier conversation
\* left; a scheduled campaign that targets the Customer there is
Init ==
    /\ customers \in {NoCustomers} \cup {(Phone :> c) : c \in InitCustomers}
    /\ followups = << >>
    /\ interactions = << >>
    /\ campaign = [status |-> "scheduled"]
    /\ targets = IF Phone \in DOMAIN customers THEN <<NewTarget(Phone)>> ELSE << >>
    /\ sent = NothingSent
    /\ IdleProcesses
    /\ IdleClient
    /\ fn_in = << >>
    /\ fn_out = << >>

\* inbound messages of one phone number, handled concurrently, and a run of
\* the follow-up driver
Next ==
    \/ \E h \in Handlers : Receive(h)
    \/ \E h \in Handlers : Create(h)
    \/ \E h \in Handlers : Respond(h)
    \/ \E h \in Handlers : Merge(h)
    \/ FollowupQuery(1)
    \/ FollowupStep(1)

Spec == Init /\ [][Next]_vars

\* ------------------------------------------ one operation at a time
\* no handler and no run is in progress
Quiet ==
    /\ \A h \in Handlers : pc[h] = "idle"
    /\ \A r \in Runs : fu_pc[r] = "idle" /\ cp_pc[r] = "idle"

\* inbound messages, follow-up runs, campaign runs and runs of the interest
\* job, each run to completion before the next one starts
NextSeq ==
    \/ Quiet /\ Receive(1)
    \/ Create(1)
    \/ Respond(1)
    \/ Merge(1)
    \/ Quiet /\ FollowupQuery(1)
    \/ FollowupStep(1)
    \/ Quiet /\ CampaignStart(1)
    \/ CampaignStep(1)
    \/ CampaignFinish(1)
    \/ Quiet /\ UpdateInterestLevels

SpecSeq == Init /\ [][NextSeq]_vars

\* inbound messages and runs of the interest job, one at a time
NextInterest ==
    \/ Quiet /\ Receive(1)
    \/ Create(1)
    \/ Respond(1)
    \/ Merge(1)
    \/ Quiet /\ UpdateInterestLevels

SpecInterest == Init /\ [][NextInterest]_vars

\* ------------------------------------ overlapping runs of the follow-up driver
\* a Customer with one or two pending FollowUps; the periodic task and the
\* process_followups endpoint each start a run
InitFollowups ==
    /\ customers \in {(Phone :> c) : c \in InitCustomers}
    /\ followups \in {<<[status |-> "pending"]>>,
                      <<[status |-> "pending"], [status |-> "pending"]>>}
    /\ interactions = << >>
    /\ campaign = [status |-> "scheduled"]
    /\ targets = <<NewTarget(Phone)>>
    /\ sent = NothingSent
    /\ IdleProcesses
    /\ IdleClient
    /\ fn_in = << >>
    /\ fn_out = << >>

NextFollowups ==
    \/ \E r \in Runs : FollowupQuery(r)
    \/ \E r \in Runs : FollowupStep(r)

SpecFollowups == InitFollowups /\ [][NextFollowups]_vars

\* runs of the follow-up driver one after the other, nothing else going on
NextFollowupRun ==
    \/ FollowupQuery(1)
    \/ FollowupStep(1)

SpecFollowupRun == InitFollowups /\ [][NextFollowupRun]_vars

\* ------------------------------------- overlapping runs of the campaign driver
\* the Customer a new sender becomes with a message that declines and asks for
\* no further contact
OptedOutCustomer ==
    [NewCustomer EXCEPT !.conversation_state = "not_interested", !.name = "Asha",
                        !.do_not_contact = TRUE]

\* a scheduled campaign with two pending targets; send_campaign starts a run
\* for every request, also while the campaign is running
InitCampaign ==
    /\ customers \in {(Phone :> c) @@ (OtherPhone :> d) :
                        c \in {NewCustomer, OptedOutCustomer},
                        d \in {NewCustomer, OptedOutCustomer}}
    /\ followups = << >>
    /\ interactions = << >>
    /\ campaign = [status |-> "scheduled"]
    /\ targets = <<NewTarget(Phone), NewTarget(OtherPhone)>>
    /\ sent = NothingSent
    /\ IdleProcesses
    /\ IdleClient
    /\ fn_in = << >>
    /\ fn_out = << >>

NextCampaign ==
    \/ \E r \in Runs : CampaignStart(r)
    \/ \E r \in Runs : CampaignStep(r)
    \/ \E r \in Runs : CampaignFinish(r)

SpecCampaign == InitCampaign /\ [][NextCampaign]_vars

\* ------------------------------------ campaign runs while messages come in
\* inbound messages handled one after the other, and runs of the campaign
\* driver that overlap them and each other
NextOutreach ==
    \/ Receive(1)
    \/ Create(1)
    \/ Respond(1)
    \/ Merge(1)
    \/ \E r \in Runs : CampaignStart(r)
    \/ \E r \in Runs : CampaignStep(r)
    \/ \E r \in Runs : CampaignFinish(r)

SpecOutreach == Init /\ [][NextOutreach]_vars

\* ------------------------------------- the state machine as a pure function
\* the handlers and the drivers at rest, no rows
IdleSystem ==
    /\ customers = NoCustomers
    /\ followups = << >>
    /\ interactions = << >>
    /\ campaign = [status |-> "scheduled"]
    /\ targets = << >>
    /\ sent = NothingSent
    /\ IdleProcesses
    /\ IdleClient

InitFsm ==
    /\ IdleSystem
    /\ fn_in \in [current_state : States, intent : Intents]
    /\ fn_out = << >>

ApplyUpdateState ==
    /\ fn_out = << >>
    /\ fn_out' = <<update_state(fn_in.current_state, fn_in.intent)>>
    /\ UNCHANGED <<tables, sent, handler_vars, fu_vars, cp_vars, fn_in, client_vars>>

SpecFsm == InitFsm /\ [][ApplyUpdateState]_vars

\* ----------------------------------- generate_response as a pure function
EngineOutcomes ==
    [intent : Intents, classify_ok : BOOLEAN, finish_stop : BOOLEAN,
     info : {EmptyInfo, InfoProperty, InfoOptOut}, extract_ok : BOOLEAN,
     generate_ok : BOOLEAN]

InitEngine ==
    /\ IdleSystem
    /\ fn_in \in [llm : EngineOutcomes,
                  profile : [conversation_state : States, interest_level : {0}]]
    /\ fn_out = << >>

ApplyGenerateResponse ==
    /\ fn_out = << >>
    /\ fn_out' = <<generate_response(fn_in.llm, fn_in.profile)>>
    /\ UNCHANGED <<tables, sent, handler_vars, fu_vars, cp_vars, fn_in, client_vars>>

SpecEngine == InitEngine /\ [][ApplyGenerateResponse]_vars

\* ------------------------------- update_customer_profile as a pure function
InfoLoan ==
    [urgency |-> "high", loan_purpose |-> "business",
     concerns |-> [is_list |-> TRUE, value |-> <<"rate", "tenure">>]]
InfoOther == [email |-> "asha@example.com", name |-> "Asha", do_not_contact |-> FALSE]

MergeInfos == {EmptyInfo, InfoProperty, InfoOptOut, InfoLoan, InfoOther}

\* Customer rows the merge is applied to: interest_level is a FloatField with
\* no validator, so a row can hold any value; maps empty or filled, the name
\* set or not
MergeCustomers ==
    [conversation_state : {"qualifying"},
     interest_level : (0 - InterestOverrun)..(10 + InterestOverrun),
     property_details : {NoDetails, [property_type |-> "house", property_value |-> 5000000]},
     loan_requirements : {NoDetails, [urgency |-> "low", concerns |-> <<"fees">>]},
     name : {"None", "Ravi"},
     do_not_contact : BOOLEAN]

InitMerge ==
    /\ IdleSystem
    /\ fn_in \in [customer : MergeCustomers, extracted_info : MergeInfos,
                  intent : Intents, state : {"property_details", "not_interested"}]
    /\ fn_out = << >>

\* update_customer_profile applied once, and applied again with the same
\* arguments to the Customer it saved
ApplyUpdateCustomerProfile ==
    /\ fn_out = << >>
    /\ LET once == update_customer_profile(fn_in.customer, fn_in.extracted_info,
                                           fn_in.intent, fn_in.state)
       IN  fn_out' = <<once,
                       update_customer_profile(once, fn_in.extracted_info,
                                               fn_in.intent, fn_in.state)>>
    /\ UNCHANGED <<tables, sent, handler_vars, fu_vars, cp_vars, fn_in, client_vars>>

SpecMerge == InitMerge /\ [][ApplyUpdateCustomerProfile]_vars

\* ------------------------------------------------- the audio policy, pure
\* len(response_text) above which audio is generated
AudioLengthLimit == 300

\* the terms looked for in the lower-cased response text
LoanTerms == {"interest rate", "emi", "tenure", "processing fee"}

\* mutant: a text of exactly the limit already gets audio
should_generate_audio_at_limit(response_text, state) ==
    IF response_text.length >= AudioLengthLimit THEN TRUE
    ELSE IF state \in {"objection_handling", "closing", "not_interested"} THEN TRUE
    ELSE IF state = "loan_details" /\ response_text.terms \cap LoanTerms # {} THEN TRUE
    ELSE FALSE

\* _should_generate_audio; a response text is its length and the set of the
\* terms that occur in its lower-cased form
should_generate_audio(response_text, state) ==
    IF response_text.length > AudioLengthLimit THEN TRUE
    ELSE IF state \in {"objection_handling", "closing", "not_interested"} THEN TRUE
    ELSE IF state = "loan_details" /\ response_text.terms \cap LoanTerms # {} THEN TRUE
    ELSE FALSE

\* generated texts: short, of the limit's length and one character longer,
\* with any of the terms or an unrelated one in them
ResponseTexts ==
    [length : {1, AudioLengthLimit, AudioLengthLimit + 1},
     terms : SUBSET {"emi", "tenure", "subsidy"}]

InitAudio ==
    /\ IdleSystem
    /\ fn_in \in [current_state : States, intent : Intents, text : ResponseTexts]
    /\ fn_out = << >>

\* the successful path of generate_response: the new state, then the audio
\* decision for the generated text in that state
ApplyShouldGenerateAudio ==
    /\ fn_out = << >>
    /\ LET new_state == update_state(fn_in.current_state, fn_in.intent)
       IN  fn_out' = <<new_state, should_generate_audio(fn_in.text, new_state)>>
    /\ UNCHANGED <<tables, sent, handler_vars, fu_vars, cp_vars, fn_in, client_vars>>

SpecAudio == InitAudio /\ [][ApplyShouldGenerateAudio]_vars

\* ------------------------------------------------- WhatsAppClient, sending
\* daily limit of sends per recipient
rate_limit == 1000
\* 24 * 60 * 60 seconds, in hours
window_duration == 24

\* dict.get(key, 0) and dict[key] = value
Get(dict, key) == IF key \in DOMAIN dict THEN dict[key] ELSE 0
Put(dict, key, value) ==
    [k \in DOMAIN dict \cup {key} |-> IF k = key THEN value ELSE dict[k]]

\* the key f"{recipient_phone}:{today}" of message_counts
CountKey(recipient_phone, t) == <<recipient_phone, t \div 24>>

\* mutant: a count equal to the limit still passes
check_rate_limit_inclusive(counts, recipient_phone, t) ==
    Get(counts, CountKey(recipient_phone, t)) <= rate_limit

check_rate_limit(counts, recipient_phone, t) ==
    Get(counts, CountKey(recipient_phone, t)) < rate_limit

update_message_count(counts, recipient_phone, t) ==
    Put(counts, CountKey(recipient_phone, t),
        Get(counts, CountKey(recipient_phone, t)) + 1)

check_conversation_window(windows, recipient_phone, t) ==
    (t - Get(windows, recipient_phone)) < window_duration

update_conversation_window(windows, recipient_phone, t) ==
    Put(windows, recipient_phone, t)

\* the request a send call posts to the messages endpoint, if it posts one
TextRequest(text) ==
    [type |-> "text", name |-> "None", parameters |-> << >>, body |-> text]
TemplateRequest(template_name, template_params) ==
    [type |-> "template", name |-> template_name, parameters |-> template_params,
     body |-> "None"]

\* send_template: the client after the call, the request posted and the
\* result; post_ok says whether the API accepts the request (within the
\* retries of the backoff decorator), a refused one is re-raised
send_template(counts, windows, t, recipient_phone, template_name, template_params, post_ok) ==
    IF ~check_rate_limit(counts, recipient_phone, t)
    THEN [message_counts |-> counts, conversation_windows |-> windows,
          request |-> NoRequest, result |-> "Rate limit exceeded"]
    ELSE IF post_ok
    THEN [message_counts |-> update_message_count(counts, recipient_phone, t),
          conversation_windows |-> update_conversation_window(windows, recipient_phone, t),
          request |-> TemplateRequest(template_name, template_params),
          result |-> "messages"]
    ELSE [message_counts |-> counts, conversation_windows |-> windows,
          request |-> TemplateRequest(template_name, template_params),
          result |-> "raised"]

\* the requests of send_audio: the upload to the media endpoint, then the
\* audio message
UploadRequest ==
    [type |-> "upload", name |-> "None", parameters |-> << >>, body |-> "None"]
AudioRequest ==
    [type |-> "audio", name |-> "None", parameters |-> << >>, body |-> "None"]

\* send_audio; upload_ok says whether _upload_media returns a media id
send_audio(counts, windows, t, recipient_phone, upload_ok, post_ok) ==
    IF ~check_rate_limit(counts, recipient_phone, t)
    THEN [message_counts |-> counts, conversation_windows |-> windows,
          request |-> NoRequest, result |-> "Rate limit exceeded"]
    ELSE IF ~check_conversation_window(windows, recipient_phone, t)
    THEN [message_counts |-> counts, conversation_windows |-> windows,
          request |-> NoRequest, result |-> "Conversation window expired"]
    ELSE IF ~upload_ok
    THEN [message_counts |-> counts, conversation_windows |-> windows,
          request |-> UploadRequest, result |-> "Failed to upload audio"]
    ELSE IF post_ok
    THEN [message_counts |-> update_message_count(counts, recipient_phone, t),
          conversation_windows |-> update_conversation_window(windows, recipient_phone, t),
          request |-> AudioRequest, result |-> "messages"]
    ELSE [message_counts |-> counts, conversation_windows |-> windows,
          request |-> AudioRequest, result |-> "raised"]

\* mutant: free-form text is posted whatever the conversation window says
send_text_in_any_window(counts, windows, t, recipient_phone, text, post_ok) ==
    IF ~check_rate_limit(counts, recipient_phone, t)
    THEN [message_counts |-> counts, conversation_windows |-> windows,
          request |-> NoRequest, result |-> "Rate limit exceeded"]
    ELSE IF post_ok
    THEN [message_counts |-> update_message_count(counts, recipient_phone, t),
          conversation_windows |-> update_conversation_window(windows, recipient_phone, t),
          request |-> TextRequest(text), result |-> "messages"]
    ELSE [message_counts |-> counts, conversation_windows |-> windows,
          request |-> TextRequest(text), result |-> "raised"]

\* send_text
send_text(counts, windows, t, recipient_phone, text, post_ok) ==
    IF ~check_rate_limit(counts, recipient_phone, t)
    THEN [message_counts |-> counts, conversation_windows |-> windows,
          request |-> NoRequest, result |-> "Rate limit exceeded"]
    ELSE IF ~check_conversation_window(windows, recipient_phone, t)
    THEN send_template(counts, windows, t, recipient_phone, "loan_follow_up",
                       <<text>>, post_ok)
    ELSE IF post_ok
    THEN [message_counts |-> update_message_count(counts, recipient_phone, t),
          conversation_windows |-> update_conversation_window(windows, recipient_phone, t),
          request |-> TextRequest(text), result |-> "messages"]
    ELSE [message_counts |-> counts, conversation_windows |-> windows,
          request |-> TextRequest(text), result |-> "raised"]

Texts == {"reply", "follow-up"}

\* the day's count is one the model follows
CountFollowed ==
    LET count == Get(message_counts, CountKey(Phone, now))
    IN  count < MaxCount \/ count >= rate_limit - 1

\* a caller (the handler's reply, the follow-up driver) calls send_text
SendText ==
    /\ CountFollowed
    /\ \E text \in Texts, post_ok \in BOOLEAN :
        LET r == send_text(message_counts, conversation_windows, now, Phone, text, post_ok)
        IN  /\ message_counts' = r.message_counts
            /\ conversation_windows' = r.conversation_windows
            /\ posted' = [call |-> "send_text", text |-> text,
                          request |-> r.request, result |-> r.result]
    /\ UNCHANGED <<now, last_inbound>>
    /\ UNCHANGED <<tables, sent, handler_vars, fu_vars, cp_vars, fn_vars>>

\* the handler calls send_audio for a reply that gets an audio version
SendAudio ==
    /\ CountFollowed
    /\ \E upload_ok \in BOOLEAN, post_ok \in BOOLEAN :
        LET r == send_audio(message_counts, conversation_windows, now, Phone,
                            upload_ok, post_ok)
        IN  /\ message_counts' = r.message_counts
            /\ conversation_windows' = r.conversation_windows
            /\ posted' = [call |-> "send_audio", text |-> "None",
                          request |-> r.request, result |-> r.result]
    /\ UNCHANGED <<now, last_inbound>>
    /\ UNCHANGED <<tables, sent, handler_vars, fu_vars, cp_vars, fn_vars>>

\* the campaign driver calls send_template
SendTemplate ==
    /\ CountFollowed
    /\ \E post_ok \in BOOLEAN :
        LET r == send_template(message_counts, conversation_windows, now, Phone,
                               "campaign", << >>, post_ok)
        IN  /\ message_counts' = r.message_counts
            /\ conversation_windows' = r.conversation_windows
            /\ posted' = [call |-> "send_template", text |-> "None",
                          request |-> r.request, result |-> r.result]
    /\ UNCHANGED <<now, last_inbound>>
    /\ UNCHANGED <<tables, sent, handler_vars, fu_vars, cp_vars, fn_vars>>

\* the webhook takes a text message of the customer: the Interaction gets the
\* timestamp, mark_message_read and the handler leave the client's
\* message_counts and conversation_windows alone
Inbound ==
    /\ last_inbound' = Put(last_inbound, Phone, now)
    /\ UNCHANGED <<message_counts, conversation_windows, now, posted>>
    /\ UNCHANGED <<tables, sent, handler_vars, fu_vars, cp_vars, fn_vars>>

\* time passes: an hour, or an hour less than the window
Tick ==
    /\ \E d \in {1, window_duration - 1} :
        /\ now + d <= StartTime + MaxElapsed
        /\ now' = now + d
    /\ UNCHANGED <<message_counts, conversation_windows, last_inbound, posted>>
    /\ UNCHANGED <<tables, sent, handler_vars, fu_vars, cp_vars, fn_vars>>

\* a client of a worker process: new, or one send short of the day's limit
InitClient ==
    /\ customers = NoCustomers
    /\ followups = << >>
    /\ interactions = << >>
    /\ campaign = [status |-> "scheduled"]
    /\ targets = << >>
    /\ sent = NothingSent
    /\ IdleProcesses
    /\ fn_in = << >>
    /\ fn_out = << >>
    /\ message_counts \in {<< >>, (CountKey(Phone, StartTime) :> (rate_limit - 1))}
    /\ conversation_windows = << >>
    /\ now = StartTime
    /\ last_inbound = << >>
    /\ posted = NoCall

NextClient ==
    \/ SendText
    \/ SendAudio
    \/ SendTemplate
    \/ Inbound
    \/ Tick

SpecClient == InitClient /\ [][NextClient]_vars

\* ------------------------------------------- WhatsAppClient, the retries
\* max_tries of backoff.on_exception on send_text, send_audio, send_template
max_tries == 5

\* what a request to the API ends in: accepted, or a RequestException (a
\* timeout or connection failure, or raise_for_status on a 5xx or 4xx answer)
PostOutcomes == {"ok", "timeout", "5xx", "4xx"}

\* one call of a send method: nothing tried yet
NewCall ==
    [status |-> "running", tries |-> 0, template_tries |-> 0, attempts |-> 0,
     last |-> "None", result |-> "None"]

\* the call ends, returning result or raising
Ended(call, status, result) == [call EXCEPT !.status = status, !.result = result]

\* a try of the decorated method raised RequestException: on_exception calls
\* the method again unless this was try number max_tries, then it re-raises
retry_or_raise(call) ==
    IF call.tries + 1 >= max_tries
    THEN Ended([call EXCEPT !.tries = @ + 1, !.template_tries = 0], "raised", "raised")
    ELSE [call EXCEPT !.tries = @ + 1, !.template_tries = 0]

\* one try of send_template called from send_text raised: the decorator of
\* send_template retries it, and after its last try the exception reaches
\* send_text, whose own decorator then retries send_text
template_retry_or_raise(call) ==
    IF call.template_tries + 1 >= max_tries
    THEN retry_or_raise(call)
    ELSE [call EXCEPT !.template_tries = @ + 1]

InitRetry ==
    /\ IdleSystem
    /\ fn_in \in [method : {"send_text", "send_audio", "send_template"},
                  under_limit : BOOLEAN, window_active : BOOLEAN]
    /\ fn_out = << >>

\* the method is called
BeginCall ==
    /\ fn_out = << >>
    /\ fn_out' = <<NewCall>>
    /\ UNCHANGED <<tables, sent, handler_vars, fu_vars, cp_vars, fn_in, client_vars>>

\* one try of the method: the checks, which a failed try leaves as they were,
\* then for send_audio the upload, then the request to the messages endpoint
Try ==
    /\ fn_out # << >>
    /\ fn_out[1].status = "running"
    /\ \E upload_ok \in BOOLEAN, outcome \in PostOutcomes :
        LET call == fn_out[1]
            posting == [call EXCEPT !.attempts = @ + 1, !.last = outcome]
        IN  fn_out' =
              <<IF ~fn_in.under_limit
                THEN Ended(call, "returned", "Rate limit exceeded")
                ELSE IF fn_in.method = "send_template"
                THEN IF outcome = "ok" THEN Ended(posting, "returned", "messages")
                     ELSE retry_or_raise(posting)
                ELSE IF fn_in.method = "send_text" /\ ~fn_in.window_active
                THEN IF outcome = "ok" THEN Ended(posting, "returned", "messages")
                     ELSE template_retry_or_raise(posting)
                ELSE IF fn_in.method = "send_audio" /\ ~fn_in.window_active
                THEN Ended(call, "returned", "Conversation window expired")
                ELSE IF fn_in.method = "send_audio" /\ ~upload_ok
                THEN Ended(call, "returned", "Failed to upload audio")
                ELSE IF outcome = "ok" THEN Ended(posting, "returned", "messages")
                     ELSE retry_or_raise(posting)>>
    /\ UNCHANGED <<tables, sent, handler_vars, fu_vars, cp_vars, fn_in, client_vars>>

SpecRetry == InitRetry /\ [][BeginCall \/ Try]_vars

\* --------------------------------------------------- the campaign trigger
CampaignStatuses == {"draft", "scheduled", "running", "completed", "cancelled"}

\* send_campaign: a request without campaign_id is answered with an error;
\* any other request queues process_campaign and is answered "started". The
\* Campaign row is not read. fn_out keeps the answer next to the status the
\* campaign had when the request came.
SendCampaign(r) ==
    /\ cp_pc[r] = "idle"
    /\ \E has_campaign_id \in BOOLEAN :
        IF has_campaign_id
        THEN /\ cp_pc' = [cp_pc EXCEPT ![r] = "queued"]
             /\ fn_out' = <<[answer |-> "started", campaign_status |-> campaign.status]>>
        ELSE /\ cp_pc' = cp_pc
             /\ fn_out' = <<[answer |-> "error", campaign_status |-> campaign.status]>>
    /\ UNCHANGED <<tables, sent, handler_vars, fu_vars, cp_batch, cp_customer, fn_in>>
    /\ UNCHANGED client_vars

\* the worker takes the queued process_campaign: the status check, which
\* ends the task with an error result for a campaign neither scheduled nor
\* running, then the status running saved and the query for the targets
ProcessCampaign(r) ==
    /\ cp_pc[r] = "queued"
    /\ IF campaign.status \in {"scheduled", "running"}
       THEN /\ campaign' = [campaign EXCEPT !.status = "running"]
            /\ cp_batch' = [cp_batch EXCEPT ![r] = SetToSeq(PendingTargets)]
            /\ cp_customer' = [cp_customer EXCEPT ![r] = customers]
            /\ cp_pc' = [cp_pc EXCEPT ![r] = "running"]
       ELSE /\ cp_pc' = [cp_pc EXCEPT ![r] = "idle"]
            /\ UNCHANGED <<campaign, cp_batch, cp_customer>>
    /\ UNCHANGED <<customers, followups, interactions, targets, sent>>
    /\ UNCHANGED <<handler_vars, fu_vars, fn_vars, client_vars>>

\* a campaign in any status, with two pending targets
InitTrigger ==
    /\ customers \in {(Phone :> c) @@ (OtherPhone :> d) :
                        c \in {NewCustomer, OptedOutCustomer},
                        d \in {NewCustomer, OptedOutCustomer}}
    /\ followups = << >>
    /\ interactions = << >>
    /\ campaign \in [status : CampaignStatuses]
    /\ targets = <<NewTarget(Phone), NewTarget(OtherPhone)>>
    /\ sent = NothingSent
    /\ IdleProcesses
    /\ IdleClient
    /\ fn_in = << >>
    /\ fn_out = << >>

NextTrigger ==
    \/ \E r \in Runs : SendCampaign(r)
    \/ \E r \in Runs : ProcessCampaign(r)
    \/ \E r \in Runs : CampaignStep(r)
    \/ \E r \in Runs : CampaignFinish(r)

SpecTrigger == InitTrigger /\ [][NextTrigger]_vars

\* ------------------------------------------ currency conversion, pure
\* A text is a sequence of characters. A number is kept in tenths, next to
\* the factor it is multiplied by: [tenths |-> 15, scale |-> 10000000] is
\* 1.5 * 10000000.
Digits == {"0", "1", "2", "3", "4", "5", "6", "7", "8", "9"}
DigitValue(c) ==
    CASE c = "0" -> 0 [] c = "1" -> 1 [] c = "2" -> 2 [] c = "3" -> 3 [] c = "4" -> 4
      [] c = "5" -> 5 [] c = "6" -> 6 [] c = "7" -> 7 [] c = "8" -> 8 [] c = "9" -> 9

\* str.lower(), for the capitals the texts use
LowerChar(c) ==
    CASE c = "A" -> "a" [] c = "C" -> "c" [] c = "K" -> "k" [] c = "L" -> "l"
      [] c = "N" -> "n" [] c = "R" -> "r" [] OTHER -> c
Lower(s) == [i \in DOMAIN s |-> LowerChar(s[i])]

\* word in text, for two strings
Contains(s, word) ==
    \E i \in 1..(Len(s) - Len(word) + 1) : SubSeq(s, i, i + Len(word) - 1) = word

\* the end of the run of digits that starts at position i
RECURSIVE DigitsEnd(_, _)
DigitsEnd(s, i) ==
    IF i + 1 <= Len(s) /\ s[i + 1] \in Digits THEN DigitsEnd(s, i + 1) ELSE i

\* int() of the digits s[i..j]
RECURSIVE DigitsValue(_, _, _)
DigitsValue(s, i, j) ==
    IF j < i THEN 0 ELSE DigitsValue(s, i, j - 1) * 10 + DigitValue(s[j])

\* float(re.search(r'(\d+\.?\d*)', s).group(1)) in tenths, -1 for no match:
\* the first run of digits, with the point and the digits after it if they
\* follow (the texts have at most one digit after the point)
numeric_match(s) ==
    IF \A i \in DOMAIN s : s[i] \notin Digits THEN -1
    ELSE LET first == CHOOSE i \in DOMAIN s :
                          /\ s[i] \in Digits
                          /\ \A j \in 1..(i - 1) : s[j] \notin Digits
             last == DigitsEnd(s, first)
             whole == DigitsValue(s, first, last)
         IN  IF last + 2 <= Len(s) /\ s[last + 1] = "." /\ s[last + 2] \in Digits
             THEN whole * 10 + DigitValue(s[last + 2])
             ELSE whole * 10

\* _convert_indian_currency_to_number for a str (strip() changes nothing the
\* search and the tests see)
convert_indian_currency_to_number(value_str) ==
    LET s == Lower(value_str)
        numeric_value == numeric_match(s)
    IN  IF numeric_value = -1 THEN [tenths |-> 0, scale |-> 1]
        ELSE IF Contains(s, <<"l", "a", "k", "h">>) \/ Contains(s, <<"l", "a", "c">>)
        THEN [tenths |-> numeric_value, scale |-> 100000]
        ELSE IF Contains(s, <<"c", "r", "o", "r", "e">>) \/ Contains(s, <<"c", "r">>)
        THEN [tenths |-> numeric_value, scale |-> 10000000]
        ELSE IF Contains(s, <<"k">>) \/ Contains(s, <<"t", "h", "o", "u", "s", "a", "n", "d">>)
        THEN [tenths |-> numeric_value, scale |-> 1000]
        ELSE [tenths |-> numeric_value, scale |-> 1]

\* the texts the extractor hands over for property_value and
\* loan_amount_needed: an optional "Rs ", a number, an optional blank, and a
\* multiplier word, another word or nothing; or a text without a number.
\* Each comes with the number (in tenths) and the word it was written with.
AmountNumbers ==
    {[chars |-> <<"8", "0">>, tenths |-> 800],
     [chars |-> <<"1", ".", "5">>, tenths |-> 15],
     [chars |-> <<"5", "0">>, tenths |-> 500],
     [chars |-> <<"2", "0", "0">>, tenths |-> 2000],
     [chars |-> <<"7", ".">>, tenths |-> 70]}
AmountWords ==
    {[chars |-> << >>, word |-> "none"],
     [chars |-> <<"l", "a", "k", "h">>, word |-> "lakh"],
     [chars |-> <<"l", "a", "k", "h", "s">>, word |-> "lakh"],
     [chars |-> <<"L", "a", "c">>, word |-> "lac"],
     [chars |-> <<"c", "r", "o", "r", "e">>, word |-> "crore"],
     [chars |-> <<"c", "r", "o", "r", "e", "s">>, word |-> "crore"],
     [chars |-> <<"C", "r">>, word |-> "cr"],
     [chars |-> <<"k">>, word |-> "k"],
     [chars |-> <<"t", "h", "o", "u", "s", "a", "n", "d">>, word |-> "thousand"],
     [chars |-> <<"r", "u", "p", "e", "e", "s">>, word |-> "rupees"],
     [chars |-> <<"a", "c", "r", "e", "s">>, word |-> "acres"],
     [chars |-> <<"m", "a", "r", "k", "e", "t">>, word |-> "market"]}
AmountTexts ==
    {[text |-> prefix \o n.chars \o blank \o w.chars, tenths |-> n.tenths, word |-> w.word] :
        prefix \in {<< >>, <<"R", "s", " ">>}, n \in AmountNumbers,
        blank \in {<< >>, <<" ">>}, w \in AmountWords}
    \cup {[text |-> s, tenths |-> -1, word |-> "none"] :
            s \in {<<"N", "/", "A">>, << >>, <<"u", "n", "k", "n", "o", "w", "n">>}}

InitCurrency ==
    /\ IdleSystem
    /\ fn_in \in AmountTexts
    /\ fn_out = << >>

\* extract_information's normalisation of a str value of property_value or
\* loan_amount_needed
ApplyConvertCurrency ==
    /\ fn_out = << >>
    /\ fn_out' = <<convert_indian_currency_to_number(fn_in.text)>>
    /\ UNCHANGED <<tables, sent, handler_vars, fu_vars, cp_vars, fn_in, client_vars>>

SpecCurrency == InitCurrency /\ [][ApplyConvertCurrency]_vars

\* ------------------------------------------ the history of the prompts
\* limit of get_conversation_history, and the slice of the formatter
HistoryLimit == 20
PromptLimit == 10

\* Interaction.objects.filter(customer=customer).order_by('timestamp')[:limit]
\* for the customer's Interactions in order of their timestamps
get_conversation_history(rows, limit) == SubSeq(rows, 1, Min(limit, Len(rows)))

\* _format_conversation_history: one line for each of conversation_history[-10:]
format_conversation_history(conversation_history) ==
    LET n == Len(conversation_history)
        recent == SubSeq(conversation_history, Max(1, n - PromptLimit + 1), n)
    IN  [i \in DOMAIN recent |->
            [speaker |-> IF recent[i].direction = "inbound" THEN "Customer:" ELSE "Agent:",
             content |-> recent[i].content]]

\* the stored Interactions of a customer, oldest first; the content of a row
\* is its number
DirectionPatterns == {"customer first", "agent first", "customer only", "agent twice"}
DirectionOf(pattern, i) ==
    CASE pattern = "customer first" -> IF i % 2 = 1 THEN "inbound" ELSE "outbound"
      [] pattern = "agent first" -> IF i % 2 = 0 THEN "inbound" ELSE "outbound"
      [] pattern = "customer only" -> "inbound"
      [] pattern = "agent twice" -> IF i % 3 = 1 THEN "inbound" ELSE "outbound"
StoredInteractions(n, pattern) ==
    [i \in 1..n |-> [direction |-> DirectionOf(pattern, i), content |-> i]]

InitHistory ==
    /\ IdleSystem
    /\ fn_in \in {StoredInteractions(n, pattern) :
                    n \in 1..(HistoryLimit + MaxExtra), pattern \in DirectionPatterns}
    /\ fn_out = << >>

\* process_text_message's get_conversation_history(customer), and the text
\* detect_intent and generate_response make of it
ApplyFormatHistory ==
    /\ fn_out = << >>
    /\ fn_out' = <<format_conversation_history(
                     get_conversation_history(fn_in, HistoryLimit))>>
    /\ UNCHANGED <<tables, sent, handler_vars, fu_vars, cp_vars, fn_in, client_vars>>

SpecHistory == InitHistory /\ [][ApplyFormatHistory]_vars

\* ================================================================== claims
Stored == customers[Phone]
HasCustomer == Phone \in DOMAIN customers
Applied == fn_out # << >>
Result == fn_out[1]

\* handler h's update_customer_profile and return happen in this step
MergeStep(h) == pc[h] = "responded" /\ pc'[h] = "idle"

TableLookup(s, i) ==
    IF i \in DOMAIN TransitionTable[s] THEN TransitionTable[s][i] ELSE s

IsPrefix(s, t) == Len(s) <= Len(t) /\ SubSeq(t, 1, Len(s)) = s

ConcernsOf(c) ==
    IF "concerns" \in DOMAIN c.loan_requirements
    THEN c.loan_requirements["concerns"] ELSE << >>

NonTerminal == States \ {"completed", "not_interested"}

\* C1: the interest_level updates of inbound messages of one phone number are
\* serialized: every handler's save stores its intent's delta applied to the
\* interest_level stored at that moment, so that after two concurrent handlers
\* the value carries both deltas and never only one of them.
C1_InterestSerialized ==
    [][\A h \in Handlers :
        MergeStep(h) =>
            Stored'.interest_level =
                update_interest_level(Stored.interest_level, response[h].intent)]_vars

\* C2: the state transitions and the profile maps of inbound messages of one
\* phone number are serialized: every handler's save moves the stored
\* conversation_state along the table entry of its intent (so two handlers end
\* in T(T(s,i1),i2) or T(T(s,i2),i1)), and keeps every key of property_details
\* and loan_requirements and every concern stored by then.
C2_TransitionsSerialized ==
    [][\A h \in Handlers :
        (MergeStep(h) /\ ~response[h].fallback) =>
            /\ Stored'.conversation_state =
                    TableLookup(Stored.conversation_state, response[h].intent)
            /\ DOMAIN Stored.property_details \subseteq DOMAIN Stored'.property_details
            /\ DOMAIN Stored.loan_requirements \subseteq DOMAIN Stored'.loan_requirements
            /\ IsPrefix(ConcernsOf(Stored), ConcernsOf(Stored'))]_vars

\* C3: every change of the stored conversation_state, by a handler or by the
\* follow-up driver, goes from s to an entry TransitionTable[s][i].
C3_OnlyTableTransitions ==
    [][(HasCustomer /\ Stored'.conversation_state # Stored.conversation_state) =>
        \E i \in DOMAIN TransitionTable[Stored.conversation_state] :
            TransitionTable[Stored.conversation_state][i] = Stored'.conversation_state]_vars

\* C4: for a (state, intent) pair without an entry in the transition table,
\* _update_state returns the current state.
C4_UnmappedStays ==
    (Applied /\ fn_in.intent \notin DOMAIN TransitionTable[fn_in.current_state])
        => Result = fn_in.current_state

C4_Witness ==
    /\ Applied
    /\ fn_in.intent \notin DOMAIN TransitionTable[fn_in.current_state]
    /\ fn_in.current_state = "follow_up_scheduling"
    /\ fn_in.intent = "objection"

\* C5: the stored conversation_state is always one of the ten defined states.
C5_StateDefined ==
    HasCustomer => Stored.conversation_state \in States

C5_Witness ==
    /\ HasCustomer
    /\ received = MaxMsgs
    /\ \E i \in DOMAIN followups : followups[i].status = "sent"
    /\ Stored.conversation_state = "follow_up_scheduling"

\* C6: from every non-terminal state intent not_interested leads to
\* not_interested; from not_interested only intent interested changes the
\* state, to introduction.
C6_NotInterested ==
    Applied =>
        /\ (fn_in.current_state \in NonTerminal /\ fn_in.intent = "not_interested")
                => Result = "not_interested"
        /\ fn_in.current_state = "not_interested" =>
                /\ fn_in.intent = "interested" => Result = "introduction"
                /\ fn_in.intent # "interested" => Result = "not_interested"

C6_Witness ==
    /\ Applied
    /\ fn_in.current_state = "not_interested"
    /\ fn_in.intent = "asking_question"
    /\ Result = "not_interested"

\* C7: once the stored conversation_state is completed, no step changes it.
C7_CompletedTerminal ==
    [][(HasCustomer /\ Stored.conversation_state = "completed")
        => Stored'.conversation_state = "completed"]_vars

\* C8 as stated: in every non-terminal state the table maps objection to
\* objection_handling, not_interested to not_interested and follow_up_later to
\* follow_up_scheduling.
C8_FullRows ==
    (Applied /\ fn_in.current_state \in NonTerminal) =>
        /\ fn_in.intent = "objection" =>
                /\ "objection" \in DOMAIN TransitionTable[fn_in.current_state]
                /\ Result = "objection_handling"
        /\ fn_in.intent = "not_interested" =>
                /\ "not_interested" \in DOMAIN TransitionTable[fn_in.current_state]
                /\ Result = "not_interested"
        /\ fn_in.intent = "follow_up_later" =>
                /\ "follow_up_later" \in DOMAIN TransitionTable[fn_in.current_state]
                /\ Result = "follow_up_scheduling"

\* states whose row has no objection entry, and no follow_up_later entry
NoObjectionEntry == {"initial", "follow_up_scheduling"}
NoLaterEntry == {"initial", "introduction", "follow_up_scheduling"}

\* C8 amended: not_interested leads to not_interested from all eight
\* non-terminal states; objection leads to objection_handling from all of them
\* but initial and follow_up_scheduling, follow_up_later to follow_up_scheduling
\* from all of them but initial, introduction and follow_up_scheduling; these
\* five pairs have no entry and leave the state as it is.
C8_RowsAsCoded ==
    (Applied /\ fn_in.current_state \in NonTerminal) =>
        /\ fn_in.intent = "not_interested" => Result = "not_interested"
        /\ fn_in.intent = "objection" =>
                Result = IF fn_in.current_state \in NoObjectionEntry
                         THEN fn_in.current_state ELSE "objection_handling"
        /\ fn_in.intent = "follow_up_later" =>
                Result = IF fn_in.current_state \in NoLaterEntry
                         THEN fn_in.current_state ELSE "follow_up_scheduling"

C8_Witness ==
    /\ Applied
    /\ fn_in.current_state = "initial"
    /\ fn_in.intent = "objection"
    /\ Result = "initial"

\* C9: the save of a message whose generation succeeded stores the Response
\* state, which is the table entry for (previous_state, intent) or
\* previous_state when there is none, whatever was extracted, together with
\* the extracted profile keys.
C9_StateStoredWithMerge ==
    [][\A h \in Handlers :
        (MergeStep(h) /\ ~response[h].fallback) =>
            /\ response[h].state =
                    TableLookup(response[h].previous_state, response[h].intent)
            /\ Stored'.conversation_state = response[h].state
            /\ (DOMAIN response[h].extracted_info \cap PropertyKeys)
                    \subseteq DOMAIN Stored'.property_details]_vars

C9_Witness ==
    /\ HasCustomer
    /\ received = 1
    /\ \A h \in Handlers : pc[h] = "idle"
    /\ Stored.conversation_state = "introduction"
    /\ Stored.interest_level = 1
    /\ "property_type" \in DOMAIN Stored.property_details

\* C10: when the generation call fails, generate_response returns the apology
\* with state and previous_state equal to the profile's current state and
\* the fallback mark set.
C10_FallbackKeepsState ==
    (Applied /\ ~fn_in.llm.generate_ok) =>
        /\ Result.text = "apology"
        /\ Result.state = fn_in.profile.conversation_state
        /\ Result.previous_state = fn_in.profile.conversation_state
        /\ Result.fallback

C10_Witness ==
    /\ Applied
    /\ ~fn_in.llm.generate_ok
    /\ fn_in.llm.classify_ok
    /\ TableLookup(fn_in.profile.conversation_state, fn_in.llm.intent)
            # fn_in.profile.conversation_state
    /\ Result.state = fn_in.profile.conversation_state

\* C11: when the classifier fails, the Response carries intent needs_more_info
\* and confidence 0.5, and extraction, the transition and generation have run:
\* a successful generation returns the generated text, the state the table
\* gives for needs_more_info and the extractor's result.
C11_ClassifierFailure ==
    (Applied /\ ~fn_in.llm.classify_ok) =>
        /\ Result.intent = "needs_more_info"
        /\ Result.confidence = 5
        /\ fn_in.llm.generate_ok =>
            /\ Result.text = "generated"
            /\ Result.state =
                TableLookup(fn_in.profile.conversation_state, "needs_more_info")
            /\ fn_in.llm.extract_ok => Result.extracted_info = fn_in.llm.info

C11_Witness ==
    /\ Applied
    /\ ~fn_in.llm.classify_ok
    /\ fn_in.llm.intent = "interested"
    /\ fn_in.llm.generate_ok
    /\ fn_in.llm.extract_ok
    /\ fn_in.llm.info = InfoProperty
    /\ fn_in.profile.conversation_state = "closing"
    /\ Result.state = "loan_details"
    /\ Result.confidence = 5

\* the Responses generate_response can return
ResponseShape(r) ==
    /\ DOMAIN r = {"text", "state", "previous_state", "intent", "confidence",
                   "extracted_info", "follow_up_date", "fallback"}
    /\ r.text \in {"generated", "apology"}
    /\ r.state \in States
    /\ r.intent \in Intents
    /\ r.confidence \in {5, 7, 8}

\* C12: for every combination of failures of classification, extraction and
\* generation, generate_response returns a Response; a failed extraction gives
\* an empty extracted_info; and each step that succeeds shows in the Response
\* whatever the other two did (the classifier's intent, the extractor's data
\* with a generated text, the generated text).
C12_EveryFailureCombination ==
    Applied =>
        /\ ResponseShape(Result)
        /\ ~fn_in.llm.extract_ok => Result.extracted_info = EmptyInfo
        /\ fn_in.llm.classify_ok => Result.intent = fn_in.llm.intent
        /\ fn_in.llm.generate_ok =>
            /\ Result.text = "generated"
            /\ fn_in.llm.extract_ok => Result.extracted_info = fn_in.llm.info
        /\ ~fn_in.llm.generate_ok => Result.text = "apology"

C12_Witness ==
    /\ Applied
    /\ ~fn_in.llm.classify_ok
    /\ ~fn_in.llm.extract_ok
    /\ ~fn_in.llm.generate_ok
    /\ fn_in.llm.info = InfoProperty
    /\ Result.text = "apology"
    /\ Result.extracted_info = EmptyInfo

\* C13: every inbound message handed to process_text_message gets an outbound
\* message: once every handler has returned, as many replies have gone out as
\* messages have come in.
C13_NoSilence ==
    (\A h \in Handlers : pc[h] = "idle") => sent.reply = received

\* the Response of handler h asks for no further contact
OptsOut(h) ==
    /\ "do_not_contact" \in DOMAIN response[h].extracted_info
    /\ response[h].extracted_info["do_not_contact"]

\* C14: do_not_contact becomes true when the merged extracted_info carries a
\* truthy do_not_contact key, and once true it stays true through inbound
\* messages, follow-up runs, campaign runs and runs of the interest job, each
\* run to completion one at a time.
C14_OneWayFlag ==
    [][/\ \A h \in Handlers : (MergeStep(h) /\ OptsOut(h)) => customers'[Phone].do_not_contact
       /\ (HasCustomer /\ Stored.do_not_contact) => customers'[Phone].do_not_contact]_vars

C14_Witness ==
    /\ HasCustomer
    /\ Stored.do_not_contact
    /\ received = 2
    /\ Quiet
    /\ Len(interactions) = 2
    /\ interactions[2].detected_intent = "interested"
    /\ \E i \in DOMAIN followups : followups[i].status = "cancelled"
    /\ Len(targets) = 1
    /\ targets[1].status = "excluded"

\* C15: the follow-up driver sends no message to a Customer whose
\* do_not_contact flag is true when the send happens, also when an inbound
\* message sets the flag while a run is in progress.
C15_NoFollowupAfterOptOut ==
    [][sent'.follow_up > sent.follow_up => ~Stored.do_not_contact]_vars

\* C16: under concurrent runs of the follow-up driver no FollowUp is processed
\* twice: the row a run processes is still pending, no other run has sent its
\* message and set its status.
C16_FollowupProcessedOnce ==
    [][\A r \in Runs :
        (fu_pc[r] = "running" /\ fu_batch'[r] # fu_batch[r]) =>
            followups[Head(fu_batch[r])].status = "pending"]_vars

\* run r of the campaign driver sends the template in this step
TemplateSentBy(r) ==
    /\ cp_pc[r] = "running"
    /\ cp_batch'[r] # cp_batch[r]
    /\ sent'.template > sent.template

\* C17: under concurrent or repeated runs of process_campaign no
\* CampaignTarget gets the template twice: a run sends only to a target that
\* is still pending, one no run has sent to.
C17_OneSendPerTarget ==
    [][\A r \in Runs :
        TemplateSentBy(r) => targets[Head(cp_batch[r])].status = "pending"]_vars

\* C18: the campaign driver sends no template to a customer whose
\* do_not_contact is true, and a CampaignTarget in status excluded keeps that
\* status through campaign runs and inbound messages.
C18_ExcludedForGood ==
    [][/\ \A r \in Runs :
            TemplateSentBy(r) =>
                ~customers[targets[Head(cp_batch[r])].customer].do_not_contact
       /\ \A i \in DOMAIN targets :
            targets[i].status = "excluded" => targets'[i].status = "excluded"]_vars

\* run r of the campaign driver processes a target in this step
TargetStepBy(r) == cp_pc[r] = "running" /\ cp_batch'[r] # cp_batch[r]

\* run r of the campaign driver starts in this step
CampaignStartBy(r) == cp_pc[r] = "idle" /\ cp_pc'[r] = "running"

Elements(seq) == {seq[k] : k \in DOMAIN seq}

\* C19: a template send that fails (error result or exception) leaves the
\* target in status failed, and failed is terminal for the driver: a run that
\* starts later takes up no failed target, and a run changes no target but the
\* one it is processing.
C19_FailedIsTerminal ==
    [][/\ \A r \in Runs :
            /\ (/\ TargetStepBy(r)
                /\ ~cp_customer[r][targets[Head(cp_batch[r])].customer].do_not_contact
                /\ sent'.template = sent.template)
                    => targets'[Head(cp_batch[r])].status = "failed"
            /\ CampaignStartBy(r) =>
                    \A i \in Elements(cp_batch'[r]) : targets[i].status # "failed"
            /\ TargetStepBy(r) =>
                    \A i \in DOMAIN targets \ {Head(cp_batch[r])} :
                        targets'[i] = targets[i]
       /\ targets' # targets => \E r \in Runs : TargetStepBy(r)]_vars

\* the first run has failed on the first target, and a run started after that
\* has only the second target to process
C19_Witness ==
    /\ targets[1].status = "failed"
    /\ targets[2].status = "pending"
    /\ cp_pc[1] = "running"
    /\ cp_batch[1] = <<2>>
    /\ cp_pc[2] = "running"
    /\ cp_batch[2] = <<2>>

\* C20: whatever inbound messages are processed and however often the job
\* update_customer_interest_levels runs, interest_level is within [0.0, 1.0].
C20_InterestInRange ==
    HasCustomer => Stored.interest_level \in 0..10

\* two messages have taken a new sender to qualifying and 0.4, and runs of the
\* job have raised the level to the upper limit
C20_Witness ==
    /\ HasCustomer
    /\ Quiet
    /\ received = 2
    /\ Len(interactions) = 2
    /\ interactions[1].detected_intent = "interested"
    /\ interactions[2].detected_intent = "interested"
    /\ Stored.conversation_state = "qualifying"
    /\ Stored.interest_level = 10

\* C21: for each intent with a delta and every starting interest_level, also
\* outside [0.0, 1.0], the value after one update_customer_profile is within
\* [0.0, 1.0].
C21_SingleUpdateInRange ==
    (Applied /\ fn_in.intent \in {"interested", "needs_more_info", "objection",
                                   "not_interested"})
        => Result.interest_level \in 0..10

\* C22: from a starting value in [0.0, 1.0], intents interested and
\* needs_more_info never lower interest_level, objection and not_interested
\* never raise it, asking_question and follow_up_later leave it unchanged.
C22_MonotoneNudge ==
    (Applied /\ fn_in.customer.interest_level \in 0..10) =>
        /\ fn_in.intent \in {"interested", "needs_more_info"}
            => Result.interest_level >= fn_in.customer.interest_level
        /\ fn_in.intent \in {"objection", "not_interested"}
            => Result.interest_level <= fn_in.customer.interest_level
        /\ fn_in.intent \in {"asking_question", "follow_up_later"}
            => Result.interest_level = fn_in.customer.interest_level

\* C23: the intent delta of an inbound message is applied to interest_level
\* once, by the handler: a run of update_customer_interest_levels, however
\* often it is repeated, leaves the stored interest_level as the handlers
\* left it.
C23_DeltaOnce ==
    [][(pc' = pc /\ HasCustomer)
           => customers'[Phone].interest_level = customers[Phone].interest_level]_vars

\* the second application's result, and the concerns an extraction carries
ResultTwice == fn_out[2]
ExtractedConcerns(extracted_info) ==
    IF "concerns" \in DOMAIN extracted_info
    THEN extracted_info["concerns"].value ELSE << >>

\* two Customers that differ at most in interest_level and in
\* loan_requirements.concerns
SameButInterestAndConcerns(a, b) ==
    /\ a.conversation_state = b.conversation_state
    /\ a.name = b.name
    /\ a.do_not_contact = b.do_not_contact
    /\ a.property_details = b.property_details
    /\ DOMAIN a.loan_requirements = DOMAIN b.loan_requirements
    /\ \A k \in DOMAIN a.loan_requirements \ {"concerns"} :
           a.loan_requirements[k] = b.loan_requirements[k]

\* C24 as stated: applying update_customer_profile twice with the same
\* (extracted_info, intent, new_state) leaves the Customer as one application
\* does, except for loan_requirements.concerns, which only grows.
C24_Idempotent ==
    Applied =>
        /\ SameButInterestAndConcerns(Result, ResultTwice)
        /\ ResultTwice.interest_level = Result.interest_level
        /\ IsPrefix(ConcernsOf(Result), ConcernsOf(ResultTwice))

\* C24 (amended): a second application with the same arguments changes only
\* loan_requirements.concerns, to which the extracted concerns are appended
\* once more after the earlier entries, and interest_level, which moves by the
\* intent's delta again (up by at most 0.2 for interested and 0.1 for
\* needs_more_info, down by at most 0.1 for objection and 0.3 for
\* not_interested, unchanged for the other intents); every other field is as
\* one application left it.
C24_IdempotentButInterest ==
    Applied =>
        /\ SameButInterestAndConcerns(Result, ResultTwice)
        /\ ConcernsOf(ResultTwice)
               = ConcernsOf(Result) \o ExtractedConcerns(fn_in.extracted_info)
        /\ LET moved == ResultTwice.interest_level - Result.interest_level
           IN  /\ fn_in.intent = "interested" => moved \in 0..2
               /\ fn_in.intent = "needs_more_info" => moved \in 0..1
               /\ fn_in.intent = "objection" => moved \in {-1, 0}
               /\ fn_in.intent = "not_interested" => moved \in {-3, -2, -1, 0}
               /\ fn_in.intent \in {"asking_question", "follow_up_later"}
                      => moved = 0

C24_Witness ==
    /\ Applied
    /\ fn_in.extracted_info = InfoLoan
    /\ fn_in.intent = "interested"
    /\ fn_in.customer.interest_level = 5
    /\ Result.interest_level = 7
    /\ ResultTwice.interest_level = 9
    /\ ConcernsOf(Result) = <<"fees", "rate", "tenure">>
    /\ ConcernsOf(ResultTwice) = <<"fees", "rate", "tenure", "rate", "tenure">>
    /\ ResultTwice.loan_requirements["urgency"] = "high"

\* the routing the merge is documented with
RoutedToProperty ==
    {"property_type", "property_location", "property_value", "ownership_status"}
RoutedToLoan ==
    {"loan_amount_needed", "loan_purpose", "current_loans", "monthly_income", "urgency"}
Restricted(f, keys) == [k \in DOMAIN f \cap keys |-> f[k]]

\* C25: the extracted property keys go to property_details and the loan keys
\* to loan_requirements, the new value replacing the old one; a map key that
\* the extraction does not carry keeps its value; an extracted key outside the
\* routed ones, name, concerns and do_not_contact changes nothing.
C25_FieldRouting ==
    Applied =>
        LET old == fn_in.customer
            info == fn_in.extracted_info
        IN  /\ DOMAIN Result.property_details
                   = DOMAIN old.property_details \cup (DOMAIN info \cap RoutedToProperty)
            /\ DOMAIN Result.loan_requirements
                   = DOMAIN old.loan_requirements
                        \cup (DOMAIN info \cap (RoutedToLoan \cup {"concerns"}))
            /\ \A k \in DOMAIN info \cap RoutedToProperty :
                   Result.property_details[k] = info[k]
            /\ \A k \in DOMAIN info \cap RoutedToLoan :
                   Result.loan_requirements[k] = info[k]
            /\ \A k \in DOMAIN old.property_details \ DOMAIN info :
                   Result.property_details[k] = old.property_details[k]
            /\ \A k \in DOMAIN old.loan_requirements \ DOMAIN info :
                   Result.loan_requirements[k] = old.loan_requirements[k]
            /\ Result =
                   update_customer_profile(
                       old,
                       Restricted(info, RoutedToProperty \cup RoutedToLoan
                                          \cup {"name", "concerns", "do_not_contact"}),
                       fn_in.intent, fn_in.state)

C25_Witness ==
    /\ Applied
    /\ fn_in.extracted_info = InfoLoan
    /\ fn_in.customer.loan_requirements = [urgency |-> "low", concerns |-> <<"fees">>]
    /\ fn_in.customer.property_details
           = [property_type |-> "house", property_value |-> 5000000]
    /\ Result.loan_requirements["urgency"] = "high"
    /\ Result.loan_requirements["loan_purpose"] = "business"
    /\ Result.property_details = fn_in.customer.property_details

\* C26: an extracted name is stored only when the Customer has none, and a
\* name the Customer has is never changed or cleared by the processing of an
\* inbound message, whatever it extracts.
C26_NameSetOnce ==
    [][/\ \A h \in Handlers :
            (MergeStep(h) /\ HasCustomer /\ customers'[Phone].name # Stored.name)
                => /\ Stored.name = "None"
                   /\ "name" \in DOMAIN response[h].extracted_info
                   /\ customers'[Phone].name = response[h].extracted_info["name"]
       /\ (HasCustomer /\ Stored.name # "None")
            => customers'[Phone].name = Stored.name]_vars

\* the ordered rule list the follow-up interval is documented with
IntervalRule(intent, state) ==
    CASE intent = "follow_up_later" -> "7d"
      [] intent # "follow_up_later" /\ state = "follow_up_scheduling" -> "14d"
      [] intent # "follow_up_later" /\ state = "not_interested" -> "90d"
      [] intent # "follow_up_later" /\ state = "objection_handling" -> "21d"
      [] intent \notin {"follow_up_later", "interested"} /\ state = "loan_details" -> "30d"
      [] OTHER -> "None"

\* C27: the follow-up interval of every (intent, new_state) pair is the first
\* matching rule of the list, and the processing of an inbound message creates
\* a FollowUp record exactly when that interval is not empty and the response
\* was generated.
C27_FollowUpPolicy ==
    [][\A h \in Handlers :
          MergeStep(h) =>
              /\ \A i \in Intents, s \in States :
                     calculate_follow_up_date(i, s) = IntervalRule(i, s)
              /\ Len(followups') = Len(followups) + 1
                     <=> /\ IntervalRule(response[h].intent, response[h].state) # "None"
                         /\ ~response[h].fallback]_vars

SendTextCall ==
    /\ posted'.call = "send_text"
    /\ posted' # posted \/ message_counts' # message_counts

\* C29: a send_text for a recipient whose conversation window has expired and
\* whose rate limit is not exceeded posts no free-form text: it goes to
\* send_template with the original text as the template parameter, and what
\* send_template returns (the API's answer, or its exception) is the result.
C29_ExpiredWindowUsesTemplate ==
    [][(/\ SendTextCall
        /\ now - Get(conversation_windows, Phone) >= 24
        /\ Get(message_counts, <<Phone, now \div 24>>) < 1000)
           => /\ posted'.request.type = "template"
              /\ posted'.request.name = "loan_follow_up"
              /\ posted'.request.parameters = <<posted'.text>>
              /\ posted'.result \in {"messages", "raised"}
              /\ posted'.result = "messages"
                    <=> /\ Get(conversation_windows', Phone) = now
                        /\ Get(message_counts', <<Phone, now \div 24>>)
                              = Get(message_counts, <<Phone, now \div 24>>) + 1]_vars

\* a window that a template opened has expired, and the text went out as the
\* template's parameter
C29_Witness ==
    /\ posted.call = "send_text"
    /\ posted.text = "follow-up"
    /\ posted.request = TemplateRequest("loan_follow_up", <<"follow-up">>)
    /\ posted.result = "messages"
    /\ now = StartTime + window_duration
    /\ Get(conversation_windows, Phone) = now
    /\ Get(message_counts, CountKey(Phone, StartTime)) = 1

\* C30: an inbound message of the customer opens the 24-hour window: a
\* send_text made within 24 hours of it, under the rate limit, posts free-form
\* text and no template.
C30_InboundOpensWindow ==
    [][(/\ SendTextCall
        /\ Phone \in DOMAIN last_inbound
        /\ now - last_inbound[Phone] < 24
        /\ Get(message_counts, <<Phone, now \div 24>>) < 1000)
           => posted'.request.type = "text"]_vars

\* a step in which one of the three send methods was called
SendCall == posted' # posted \/ message_counts' # message_counts
TodayCount == Get(message_counts, <<Phone, now \div 24>>)

\* C31: the count of a recipient's successful sends of one calendar day,
\* over send_text, send_audio and send_template, never exceeds 1000; a send
\* called with the count at the limit returns the rate-limit error, posts no
\* request and leaves the count and the conversation window as they were.
C31_DailyLimit ==
    [][/\ \A key \in DOMAIN message_counts' : message_counts'[key] <= 1000
       /\ SendCall =>
            /\ Get(message_counts', <<Phone, now \div 24>>)
                   = IF posted'.result = "messages" THEN TodayCount + 1 ELSE TodayCount
            /\ TodayCount >= 1000 =>
                   /\ posted'.result = "Rate limit exceeded"
                   /\ posted'.request.type = "none"
                   /\ message_counts' = message_counts
                   /\ conversation_windows' = conversation_windows]_vars

\* the thousandth send of the day was a text; the audio after it is refused
C31_Witness ==
    /\ TodayCount = 1000
    /\ posted.call = "send_audio"
    /\ posted.result = "Rate limit exceeded"
    /\ posted.request = NoRequest
    /\ Get(conversation_windows, Phone) = now

\* C32: one call of send_text, send_audio or send_template posts at most 5
\* requests to the messages endpoint, also in the template fallback of
\* send_text; it raises only after five failed requests, and an accepted
\* request ends it.
C32_AtMostFiveAttempts ==
    Applied =>
        /\ Result.attempts <= 5
        /\ Result.status = "raised" => Result.attempts = 5
        /\ Result.last = "ok" => Result.status = "returned"

\* C33: a request is tried again only after a transient transport failure
\* (timeout, connection failure, 5xx): after a 4xx answer of the API, and
\* after a rate-limit or window rejection, the call ends without another try.
C33_RetryOnlyTransient ==
    (Applied /\ Result.status = "running")
        => Result.last \in {"None", "timeout", "5xx"}

\* C34: the campaign trigger answers "started" only for a campaign that is
\* scheduled or running, and answers with an error for a campaign in draft,
\* completed or cancelled.
C34_StartableOnly ==
    Applied =>
        /\ Result.answer = "started" => Result.campaign_status \in {"scheduled", "running"}
        /\ Result.campaign_status \in {"draft", "completed", "cancelled"}
              => Result.answer = "error"

\* C35: a run of process_scheduled_followups completes with every FollowUp
\* its query found (pending and due at its start) in status sent, failed or
\* cancelled; the run never touches a FollowUp that was not due; and a
\* FollowUp that ends failed or cancelled leaves the Customer as it was.
C35_RunSettlesDue ==
    [][/\ (fu_pc[1] = "idle" /\ fu_pc'[1] = "running")
            => /\ fu_found'[1] \subseteq PendingFollowups
               /\ followups' = followups
       /\ fu_pc[1] = "running"
            => /\ \A i \in DOMAIN followups \ fu_found[1] : followups'[i] = followups[i]
               /\ \A i \in fu_found[1] :
                     followups'[i].status # followups[i].status
                        => /\ followups[i].status = "pending"
                           /\ followups'[i].status \in {"failed", "cancelled"}
                                 => customers' = customers
       /\ (fu_pc[1] = "running" /\ fu_pc'[1] = "idle")
            => \A i \in fu_found[1] :
                  followups'[i].status \in {"sent", "failed", "cancelled"}]_vars

\* a run found the first FollowUp only, its send failed, and the run is over
C35_Witness ==
    /\ fu_pc[1] = "idle"
    /\ Len(followups) = 2
    /\ followups[1].status = "failed"
    /\ followups[2].status = "pending"
    /\ sent.follow_up = 0
    /\ HasCustomer
    /\ ~Stored.do_not_contact

\* C36: the processing of a message from a phone number without a Customer
\* creates the Customer, in state initial with interest_level 0.0, and goes
\* on to process the message, also when another first message of the number
\* is processed at the same time; no step makes a second Customer or removes
\* one.
C36_CreatesAndContinues ==
    [][/\ \A h \in Handlers :
            (pc[h] = "creating" /\ pc'[h] # "creating")
                => /\ pc'[h] = "loaded"
                   /\ Phone \in DOMAIN customers'
                   /\ ~HasCustomer
                         => /\ customers'[Phone].conversation_state = "initial"
                            /\ customers'[Phone].interest_level = 0
       /\ HasCustomer => DOMAIN customers' = DOMAIN customers]_vars

\* the factor of a multiplier word, 1 for any other word
MultiplierOf(word) ==
    CASE word \in {"lakh", "lac"} -> 100000
      [] word \in {"crore", "cr"} -> 10000000
      [] word \in {"k", "thousand"} -> 1000
      [] OTHER -> 1

\* C37: the conversion takes the first number of the text and multiplies it
\* by the factor of the multiplier word written with it (lakh/lac 100,000;
\* crore/cr 10,000,000; k/thousand 1,000), gives the number itself when no
\* multiplier word is written, and 0 for a text without a number; "80 lakhs"
\* is 8,000,000, "1.5 crores" 15,000,000, "50k" 50,000, "200" 200, "N/A" 0.
C37_CurrencyConversion ==
    Applied =>
        /\ fn_in.tenths = -1 => Result.tenths * Result.scale = 0
        /\ fn_in.tenths # -1 =>
              /\ Result.tenths = fn_in.tenths
              /\ Result.scale = MultiplierOf(fn_in.word)
        /\ fn_in.text = <<"8", "0", " ", "l", "a", "k", "h", "s">>
              => Result.tenths * Result.scale = 80000000
        /\ fn_in.text = <<"1", ".", "5", " ", "c", "r", "o", "r", "e", "s">>
              => Result.tenths * Result.scale = 150000000
        /\ fn_in.text = <<"5", "0", "k">> => Result.tenths * Result.scale = 500000
        /\ fn_in.text = <<"2", "0", "0">> => Result.tenths * Result.scale = 2000
        /\ fn_in.text = <<"N", "/", "A">> => Result.tenths * Result.scale = 0

\* C38: the history of the prompts is the customer's 10 most recent
\* Interactions (all of them if there are fewer), oldest first, an inbound one
\* as a "Customer:" line and an outbound one as an "Agent:" line, however
\* many Interactions the customer has.
C38_TenMostRecent ==
    Applied =>
        LET n == Len(fn_in)
            shown == IF n < 10 THEN n ELSE 10
        IN  /\ Len(Result) = shown
            /\ \A i \in 1..shown :
                  /\ Result[i].content = fn_in[n - shown + i].content
                  /\ Result[i].speaker =
                        IF fn_in[n - shown + i].direction = "inbound"
                        THEN "Customer:" ELSE "Agent:"

\* C39: with two handlers of one customer at work, a save never takes
\* do_not_contact back: the flag one handler has stored as true is still true
\* after the other handler's save.
C39_FlagSurvivesConcurrentSave ==
    [][\A h \in Handlers :
          (MergeStep(h) /\ HasCustomer /\ Stored.do_not_contact)
              => Stored'.do_not_contact]_vars

\* C40: the processing of a message whose generation failed stores the
\* Customer with conversation_state, property_details, loan_requirements, name
\* and do_not_contact as they were and creates no FollowUp, whatever the
\* extractor returned; interest_level is the one the detected intent's rule
\* (its delta, then its cap) gives from the stored one.
C40_FallbackFrame ==
    [][\A h \in Handlers :
          (MergeStep(h) /\ response[h].fallback) =>
              /\ response[h].extracted_info = EmptyInfo
              /\ response[h].follow_up_date = "None"
              /\ Stored'.conversation_state = Stored.conversation_state
              /\ Stored'.property_details = Stored.property_details
              /\ Stored'.loan_requirements = Stored.loan_requirements
              /\ Stored'.name = Stored.name
              /\ Stored'.do_not_contact = Stored.do_not_contact
              /\ followups' = followups
              /\ Stored'.interest_level =
                    update_interest_level(Stored.interest_level, response[h].intent)]_vars

\* a Customer in qualifying said it was interested, the generation failed:
\* the state did not advance, nothing was merged, the interest went up
C40_Witness ==
    /\ Quiet
    /\ received = 1
    /\ HasCustomer
    /\ Stored.conversation_state = "qualifying"
    /\ Stored.interest_level = 6
    /\ Stored.property_details = NoDetails
    /\ Stored.name = "None"
    /\ Len(interactions) = 1
    /\ interactions[1].detected_intent = "interested"
    /\ followups = << >>
    /\ sent.reply = 1

====
